---- MODULE Spec2Model ----
(***************************************************************************)
(* Model of find_pattern (src/process_mem_tool.cpp): the scan of the       *)
(* committed memory of a target process for a literal byte pattern.        *)
(*                                                                         *)
(*   - region enumeration and block planning (lines 43-69),                *)
(*   - the OpenMP worker loop with the memory-budget gate (lines 80-159),  *)
(*   - the per-block match loop (lines 136-153),                           *)
(*   - the aggregation and printing of the matches (lines 165-206).        *)
(*   - the command loop that selects the target and calls find_pattern    *)
(*     (lines 219-354).                                                    *)
(*                                                                         *)
(* Block, match and descriptor indices are 0-based as in the source; the   *)
(* vectors are sequences, so vector[i] is written At(vector, i).           *)
(***************************************************************************)
EXTENDS Integers, Sequences, FiniteSets, TLC

(***************************************************************************)
(* Bounds of the model.                                                    *)
(***************************************************************************)
GranLog2 == 2          \* log2 of the host allocation granularity
MaxAllocBlocks == 4    \* largest stride factor g_num_alloc_blocks
MaxRegionSize == 40    \* largest region of the single-region inputs
MaxOmpThreads == 2     \* largest worker ceiling g_max_omp_threads
NumProcs == 2          \* omp_get_num_procs() of the host
MaxResults == 6        \* result ceiling of too_many_results
DwordBits == 16        \* bits of a DWORD in the model (32 in the source)

(***************************************************************************)
(* Program constants.                                                      *)
(***************************************************************************)
VecWidth == 16         \* sizeof(__m128i)
NoPrevMatch == -1      \* (uint64_t)(-1), never the address of a match

MEM_COMMIT == "MEM_COMMIT"
MEM_FREE == "MEM_FREE"
MEM_RESERVE == "MEM_RESERVE"

VARIABLES
    \* a session of two scans of one target, verbose reads off and then on
    quiet,                   \* what the scan with verbose reads off did
    \* run_process_inspection
    pid,                     \* ctx.pid
    repl_pc,                 \* "prompt", "scanning" (in find_pattern), "exited"
    command,                 \* char command[]: the line of the last command
    cmd,                     \* input_command of the last command
    os_calls,                \* calls the last command made on processes
    console,                 \* messages the last command printed
    \* the target process and the configuration (fixed during a scan)
    regions,                 \* address space: contiguous regions from address 0
    mem,                     \* byte at each address of the target
    pattern,                 \* the literal pattern, a sequence of bytes
    g_num_alloc_blocks,      \* stride factor
    g_memory_limit,          \* byte budget
    g_max_omp_threads,       \* worker ceiling
    g_show_failed_readings,  \* verbose reads
    \* find_pattern
    phase,                   \* "entry", "scan", "joined", "returned"
    info,                    \* std::vector<MEMORY_BASIC_INFORMATION>
    blocks,                  \* std::vector<block>
    match,                   \* std::vector<std::vector<const char*>>
    num_threads,
    g_memory_usage_bytes,    \* in-flight bytes
    ledger,                  \* the additions to and subtractions from the counter, in order
    next_iter,               \* next unclaimed iteration of the dynamic schedule
    pc,                      \* position of each worker in the loop body
    cur,                     \* iteration i held by each worker
    res,                     \* BOOL res of the worker's last read
    bytes_read,              \* SIZE_T bytes_read of the worker's last read
    g_mtx,                   \* owner of the gate lock, 0 when free
    g_err_mtx,               \* owner of the diagnostic lock, 0 when free
    waiters,                 \* workers blocked in g_cv.wait
    outcome,                 \* per block: what its read returned
    finished,                \* block indices in the order their iterations ended
    diag,                    \* diagnostics printed by the workers
    printed,                 \* lines printed by the aggregation loop
    result                   \* which return path find_pattern took

repl_vars == <<pid, repl_pc, command, cmd, os_calls, console>>
target_vars == <<regions, mem, g_num_alloc_blocks, g_memory_limit,
                 g_max_omp_threads, g_show_failed_readings>>
\* what a scan leaves alone
cfg_vars == <<quiet, repl_vars, target_vars, pattern>>
plan_vars == <<info, blocks, num_threads>>
lock_vars == <<g_mtx, g_err_mtx, waiters>>
worker_vars == <<pc, cur, res, bytes_read>>
out_vars == <<printed, result>>
budget_vars == <<g_memory_usage_bytes, ledger>>
scan_vars == <<phase, plan_vars, match, budget_vars, next_iter,
               worker_vars, lock_vars, outcome, finished, diag, out_vars>>
vars == <<cfg_vars, scan_vars>>

(***************************************************************************)
(* Helpers.                                                                *)
(***************************************************************************)
At(vec, i) == vec[i + 1]

_min(a, b) == IF a < b THEN a ELSE b

Pow2(n) == 2 ^ n

Range(s) == {s[k] : k \in 1..Len(s)}

RECURSIVE SumLens(_)
SumLens(vecs) ==
    IF vecs = <<>> THEN 0 ELSE Len(Head(vecs)) + SumLens(Tail(vecs))

\* round v up to a multiple of n
multiple_of_n(v, n) == ((v + n - 1) \div n) * n

alloc_granularity == Pow2(GranLog2)

pattern_len == Len(pattern)
\* variant of extra_chunk: the pattern length is not rounded up
extra_chunk_unrounded == pattern_len

extra_chunk == multiple_of_n(pattern_len, VecWidth)
block_size == alloc_granularity * g_num_alloc_blocks
\* variant of bytes_to_read_ideal: blocks without the extra chunk
bytes_to_read_ideal_no_overlap == block_size

bytes_to_read_ideal == block_size + extra_chunk
max_memory_usage == g_memory_limit

(***************************************************************************)
(* Region enumeration and block planning, lines 43-69.                     *)
(***************************************************************************)
\* variant of split_region: a full block consumes its whole size, not the stride
RECURSIVE split_region_consumes_ideal(_, _, _, _)
split_region_consumes_ideal(p, region_size, bytes_offset, id) ==
    IF region_size = 0 THEN <<>>
    ELSE IF region_size >= bytes_to_read_ideal
    THEN <<[ptr |-> p + bytes_offset, size |-> bytes_to_read_ideal, info_id |-> id]>>
         \o split_region_consumes_ideal(p, region_size - bytes_to_read_ideal,
                                        bytes_offset + block_size, id)
    ELSE <<[ptr |-> p + bytes_offset, size |-> region_size, info_id |-> id]>>

\* variant of split_region: the rest of a region is cut off only when a full
\* block and a stride fit into it
RECURSIVE split_region_late_tail(_, _, _, _)
split_region_late_tail(p, region_size, bytes_offset, id) ==
    IF region_size = 0 THEN <<>>
    ELSE IF region_size >= bytes_to_read_ideal + block_size
    THEN <<[ptr |-> p + bytes_offset, size |-> bytes_to_read_ideal, info_id |-> id]>>
         \o split_region_late_tail(p, region_size - block_size, bytes_offset + block_size, id)
    ELSE <<[ptr |-> p + bytes_offset, size |-> region_size, info_id |-> id]>>

\* the inner while loop, lines 53-66: the blocks of one region
RECURSIVE split_region(_, _, _, _)
split_region(p, region_size, bytes_offset, id) ==
    IF region_size = 0 THEN <<>>
    ELSE IF region_size >= bytes_to_read_ideal
    THEN <<[ptr |-> p + bytes_offset, size |-> bytes_to_read_ideal, info_id |-> id]>>
         \o split_region(p, region_size - block_size, bytes_offset + block_size, id)
    ELSE <<[ptr |-> p + bytes_offset, size |-> region_size, info_id |-> id]>>

\* variant of walk_regions: the state of a region is not looked at
RECURSIVE walk_regions_any_state(_, _, _, _)
walk_regions_any_state(k, n_ok, inf, blks) ==
    IF k > n_ok THEN [info |-> inf, blocks |-> blks]
    ELSE LET _info == regions[k] IN
         IF ~(_info.RegionSize < pattern_len)
         THEN walk_regions_any_state(k + 1, n_ok, Append(inf, _info),
                  blks \o split_region(_info.BaseAddress, _info.RegionSize, 0, Len(inf)))
         ELSE walk_regions_any_state(k + 1, n_ok, inf, blks)

\* variant of walk_regions: a block stores the index of its region in the
\* address space, not in the descriptor table
RECURSIVE walk_regions_region_index(_, _, _, _)
walk_regions_region_index(k, n_ok, inf, blks) ==
    IF k > n_ok THEN [info |-> inf, blocks |-> blks]
    ELSE LET _info == regions[k] IN
         IF _info.State = MEM_COMMIT /\ ~(_info.RegionSize < pattern_len)
         THEN walk_regions_region_index(k + 1, n_ok, Append(inf, _info),
                  blks \o split_region(_info.BaseAddress, _info.RegionSize, 0, k - 1))
         ELSE walk_regions_region_index(k + 1, n_ok, inf, blks)

\* the for loop over VirtualQueryEx, lines 46-68; the query succeeds for the
\* first n_ok regions and fails at the next address
RECURSIVE walk_regions(_, _, _, _)
walk_regions(k, n_ok, inf, blks) ==
    IF k > n_ok THEN [info |-> inf, blocks |-> blks]
    ELSE LET _info == regions[k] IN
         IF _info.State = MEM_COMMIT /\ ~(_info.RegionSize < pattern_len)
         THEN walk_regions(k + 1, n_ok, Append(inf, _info),
                  blks \o split_region(_info.BaseAddress, _info.RegionSize, 0, Len(inf)))
         ELSE walk_regions(k + 1, n_ok, inf, blks)

plan(n_ok) == walk_regions(1, n_ok, <<>>, <<>>)

(***************************************************************************)
(* The per-block match loop, lines 136-153.                                *)
(***************************************************************************)
\* byte k of a worker's buffer after n bytes were read from address ptr; the
\* bytes past the ones read are left over from an earlier block
buffer_byte(ptr, n, k) == IF k < n THEN mem[ptr + k] ELSE "stale"

\* TRUE iff the pattern is at offset k of the buffer
pattern_at(ptr, n, k) ==
    \A j \in 1..pattern_len : buffer_byte(ptr, n, k + j - 1) = pattern[j]

\* strstr_u8(buffer_ptr, buffer_size, pattern, pattern_len): the offset of the
\* first occurrence that lies inside [buffer_ptr, buffer_ptr + buffer_size),
\* -1 for a null result
strstr_u8(ptr, n, buffer_ptr, buffer_size) ==
    LET hits == {k \in buffer_ptr..(buffer_ptr + buffer_size - pattern_len) :
                    pattern_at(ptr, n, k)}
    IN IF hits = {} THEN -1 ELSE CHOOSE k \in hits : \A h \in hits : k <= h

\* variant of match_loop: the search resumes after the end of each match
RECURSIVE match_loop_skips_match(_, _, _, _, _)
match_loop_skips_match(ptr, n, buffer_ptr, buffer_size, acc) ==
    IF ~(buffer_size >= pattern_len) THEN acc
    ELSE LET old_buf_ptr == buffer_ptr
             found == strstr_u8(ptr, n, buffer_ptr, buffer_size)
             called == [acc EXCEPT !.calls = Append(@, <<buffer_ptr, buffer_size>>)]
         IN IF found = -1 THEN called
            ELSE match_loop_skips_match(ptr, n, found + pattern_len,
                            buffer_size - ((found + pattern_len) - old_buf_ptr),
                            [called EXCEPT !.hits = Append(@, ptr + found)])

\* the while loop, lines 140-152; buffer_ptr is an offset into the buffer.
\* hits: the addresses pushed to match[i]; calls: the (buffer_ptr,
\* buffer_size) windows handed to strstr_u8
RECURSIVE match_loop(_, _, _, _, _)
match_loop(ptr, n, buffer_ptr, buffer_size, acc) ==
    IF ~(buffer_size >= pattern_len) THEN acc
    ELSE LET old_buf_ptr == buffer_ptr
             found == strstr_u8(ptr, n, buffer_ptr, buffer_size)
             called == [acc EXCEPT !.calls = Append(@, <<buffer_ptr, buffer_size>>)]
         IN IF found = -1 THEN called
            ELSE match_loop(ptr, n, found + 1,
                            buffer_size - ((found + 1) - old_buf_ptr),
                            [called EXCEPT !.hits = Append(@, ptr + found)])

\* lines 136-153: the matches of a block of which n bytes were read
search_block(ptr, n) ==
    IF n >= pattern_len
    THEN match_loop(ptr, n, 0, n, [hits |-> <<>>, calls |-> <<>>])
    ELSE [hits |-> <<>>, calls |-> <<>>]

(***************************************************************************)
(* Aggregation, lines 165-206.                                             *)
(***************************************************************************)
too_many_results(num_matches) == num_matches > MaxResults

\* lines 197-203: the matches of block i, skipping one equal to prev_match
RECURSIVE print_matches(_, _, _)
print_matches(i, ms, st) ==
    IF ms = <<>> THEN st
    ELSE IF st.prev_match = Head(ms)
    THEN print_matches(i, Tail(ms), st)
    ELSE print_matches(i, Tail(ms),
             [prev_match |-> Head(ms),
              out |-> Append(st.out, [kind |-> "match", block |-> i, addr |-> Head(ms)])])

\* variant of print_blocks: the blocks are walked from the last to the first
RECURSIVE print_blocks_descending(_, _)
print_blocks_descending(i, st) ==
    IF ~(i < Len(blocks)) THEN st
    ELSE LET r == Len(blocks) - 1 - i
         IN IF Len(At(match, r)) > 0
            THEN print_blocks_descending(i + 1,
                     print_matches(r, At(match, r),
                         [st EXCEPT !.out = Append(@, [kind |-> "header", block |-> r,
                                                       addr |-> At(blocks, r).info_id])]))
            ELSE print_blocks_descending(i + 1, st)

\* lines 182-206: the blocks in index order, a header for each block with
\* matches
RECURSIVE print_blocks(_, _)
print_blocks(i, st) ==
    IF ~(i < Len(blocks)) THEN st
    ELSE IF Len(At(match, i)) > 0
    THEN print_blocks(i + 1,
             print_matches(i, At(match, i),
                 [st EXCEPT !.out = Append(@, [kind |-> "header", block |-> i,
                                               addr |-> At(blocks, i).info_id])]))
    ELSE print_blocks(i + 1, st)

(***************************************************************************)
(* The states a scan starts from.                                          *)
(***************************************************************************)
Workers == 1.._min(MaxOmpThreads, NumProcs)   \* worker w is OpenMP thread w - 1

\* regions laid end to end from address 0; layout is a sequence of
\* <<state, size>>
RECURSIVE lay_out(_, _)
lay_out(layout, base) ==
    IF layout = <<>> THEN <<>>
    ELSE <<[BaseAddress |-> base, RegionSize |-> Head(layout)[2], State |-> Head(layout)[1]]>>
         \o lay_out(Tail(layout), base + Head(layout)[2])

RECURSIVE TotalSize(_)
TotalSize(layout) ==
    IF layout = <<>> THEN 0 ELSE Head(layout)[2] + TotalSize(Tail(layout))

\* memory of top bytes, all "B" but a run of len "A"s at address at
run_memory(top, at, len) ==
    [a \in 0..(top - 1) |-> IF at <= a /\ a < at + len THEN "A" ELSE "B"]

Repeat(byte, n) == [k \in 1..n |-> byte]

\* execute_command up to its call of find_pattern, lines 282-293
search_calls(p) ==
    <<<<"OpenProcess", p>>, <<"GetModuleFileNameExA">>, <<"find_pattern">>>>

\* no scan with verbose reads off to compare with
NoQuiet ==
    [state |-> "off", blocks |-> <<>>, outcome |-> <<>>, match |-> <<>>, ledger |-> <<>>]

\* the state at the entry of find_pattern, before line 24
Entry ==
    /\ pid = 0
    /\ repl_pc = "scanning"
    /\ command = <<>>
    /\ cmd = "c_search_pattern"
    /\ os_calls = search_calls(pid)
    /\ console = <<>>
    /\ phase = "entry"
    /\ info = <<>> /\ blocks = <<>> /\ match = <<>>
    /\ num_threads = 0
    /\ g_memory_usage_bytes = 0
    /\ ledger = <<>>
    /\ next_iter = 0
    /\ pc = [w \in Workers |-> "off"]
    /\ cur = [w \in Workers |-> 0]
    /\ res = [w \in Workers |-> TRUE]
    /\ bytes_read = [w \in Workers |-> 0]
    /\ g_mtx = 0 /\ g_err_mtx = 0 /\ waiters = {}
    /\ outcome = <<>>
    /\ finished = <<>>
    /\ diag = {}
    /\ printed = <<>> /\ result = "running"

\* scans of a target of a few regions, every configuration
ScanLayouts ==
    LET S == alloc_granularity * MaxAllocBlocks
    IN { <<<<MEM_FREE, 4>>, <<MEM_COMMIT, S + VecWidth + 8>>>>,
         <<<<MEM_COMMIT, 6>>, <<MEM_RESERVE, S>>, <<MEM_COMMIT, 1>>, <<MEM_COMMIT, 6>>>> }

Init ==
    /\ Entry
    /\ quiet = NoQuiet
    /\ \E layout \in ScanLayouts :
          /\ regions = lay_out(layout, 0)
          /\ \E run \in {<<0, 0>>, <<3 + alloc_granularity * MaxAllocBlocks, 4>>} :
                mem = run_memory(TotalSize(layout), run[1], run[2])
    /\ pattern \in {Repeat("A", 1), Repeat("A", 2)}
    /\ g_num_alloc_blocks = MaxAllocBlocks
    /\ g_memory_limit \in {extra_chunk, bytes_to_read_ideal, bytes_to_read_ideal + extra_chunk}
    /\ g_max_omp_threads \in 1..MaxOmpThreads
    /\ g_show_failed_readings \in BOOLEAN

(***************************************************************************)
(* find_pattern, lines 23-79: reset of the counter, planning, thread count. *)
(***************************************************************************)
Plan ==
    /\ phase = "entry"
    /\ \E n_ok \in 0..Len(regions) :
          LET p == plan(n_ok)
              num_blocks == Len(p.blocks)
              n_thr == _min(num_blocks, _min(g_max_omp_threads, NumProcs))
          IN /\ info' = p.info
             /\ blocks' = p.blocks
             /\ match' = [k \in 1..num_blocks |-> <<>>]
             /\ outcome' = [k \in 1..num_blocks |-> [kind |-> "none", n |-> 0]]
             /\ num_threads' = n_thr
             /\ pc' = [w \in Workers |-> IF w <= n_thr THEN "claim" ELSE "off"]
    /\ g_memory_usage_bytes' = 0
    /\ ledger' = <<>>
    /\ phase' = "scan"
    /\ UNCHANGED <<cfg_vars, next_iter, cur, res, bytes_read, lock_vars, finished, diag, out_vars>>

(***************************************************************************)
(* The body of the parallel loop, lines 80-159, one worker w.              *)
(***************************************************************************)
bytes_to_read(w) == At(blocks, cur[w]).size

\* the ledger after worker w has added or subtracted the size of its block;
\* it is kept in a session that compares two scans
ledger_with(op, w) ==
    IF quiet.state = "off" THEN ledger
    ELSE Append(ledger, [op |-> op, block |-> cur[w]])
ptr(w) == At(blocks, cur[w]).ptr

\* variant of Claim: the schedule hands out every second iteration
Claim_skips(w) ==
    /\ phase = "scan" /\ pc[w] = "claim"
    /\ IF next_iter < Len(blocks)
       THEN /\ cur' = [cur EXCEPT ![w] = next_iter]
            /\ next_iter' = next_iter + 2
            /\ pc' = [pc EXCEPT ![w] = "lock_gate"]
       ELSE /\ pc' = [pc EXCEPT ![w] = "done"]
            /\ UNCHANGED <<cur, next_iter>>
    /\ UNCHANGED <<cfg_vars, phase, plan_vars, match, budget_vars,
                   res, bytes_read, lock_vars, outcome, finished, diag, out_vars>>

\* schedule(dynamic, 1), line 81: take the next unclaimed iteration
Claim(w) ==
    /\ phase = "scan" /\ pc[w] = "claim"
    /\ IF next_iter < Len(blocks)
       THEN /\ cur' = [cur EXCEPT ![w] = next_iter]
            /\ next_iter' = next_iter + 1
            /\ pc' = [pc EXCEPT ![w] = "lock_gate"]
       ELSE /\ pc' = [pc EXCEPT ![w] = "done"]
            /\ UNCHANGED <<cur, next_iter>>
    /\ UNCHANGED <<cfg_vars, phase, plan_vars, match, budget_vars,
                   res, bytes_read, lock_vars, outcome, finished, diag, out_vars>>

\* line 92, and the lock taken again when g_cv.wait returns
LockGate(w) ==
    /\ pc[w] = "lock_gate" /\ g_mtx = 0
    /\ g_mtx' = w
    /\ pc' = [pc EXCEPT ![w] = "gate"]
    /\ UNCHANGED <<cfg_vars, phase, plan_vars, match, budget_vars, next_iter,
                   cur, res, bytes_read, g_err_mtx, waiters, outcome, finished, diag, out_vars>>

\* variant of gate_open: the predicate allows for one more full block
gate_open_one_more_block == g_memory_usage_bytes < max_memory_usage + bytes_to_read_ideal

\* the predicate of g_cv.wait, line 94
gate_open == g_memory_usage_bytes < max_memory_usage

\* lines 93-100: admitted when the predicate holds, else blocked in g_cv.wait
\* with the lock released
Gate(w) ==
    /\ pc[w] = "gate" /\ g_mtx = w
    /\ IF gate_open
       THEN /\ g_memory_usage_bytes' = g_memory_usage_bytes + bytes_to_read(w)
            /\ ledger' = ledger_with("add", w)
            /\ pc' = [pc EXCEPT ![w] = "read"]
            /\ UNCHANGED waiters
       ELSE /\ waiters' = waiters \cup {w}
            /\ pc' = [pc EXCEPT ![w] = "wait"]
            /\ UNCHANGED budget_vars
    /\ g_mtx' = 0
    /\ UNCHANGED <<cfg_vars, phase, plan_vars, match, next_iter,
                   cur, res, bytes_read, g_err_mtx, outcome, finished, diag, out_vars>>

\* g_cv.wait may return without a notification
SpuriousWakeup(w) ==
    /\ pc[w] = "wait" /\ w \in waiters
    /\ waiters' = waiters \ {w}
    /\ pc' = [pc EXCEPT ![w] = "lock_gate"]
    /\ UNCHANGED <<cfg_vars, phase, plan_vars, match, budget_vars, next_iter,
                   cur, res, bytes_read, g_mtx, g_err_mtx, outcome, finished, diag, out_vars>>

\* the byte counts a short read may return
ShortReads(size) == {pattern_len - 1, size - 1} \cap 0..(size - 1)

\* where the worker goes after the read, lines 105-134
after_read(r, n, size) ==
    IF ~r \/ n # size
    THEN IF ~g_show_failed_readings
         THEN IF ~r THEN "lock_fail" ELSE "match"
         ELSE "lock_err"
    ELSE "match"

\* ReadProcessMemory, lines 102-103, and the branch at lines 105-113
Read(w) ==
    /\ pc[w] = "read"
    /\ \E rd \in {[kind |-> "full", n |-> bytes_to_read(w)], [kind |-> "fail", n |-> 0]}
               \cup {[kind |-> "short", n |-> n] : n \in ShortReads(bytes_to_read(w))} :
          /\ res' = [res EXCEPT ![w] = rd.kind # "fail"]
          /\ bytes_read' = [bytes_read EXCEPT ![w] = rd.n]
          /\ outcome' = [outcome EXCEPT ![cur[w] + 1] = rd]
          /\ pc' = [pc EXCEPT ![w] = after_read(rd.kind # "fail", rd.n, bytes_to_read(w))]
    /\ UNCHANGED <<cfg_vars, phase, plan_vars, match, budget_vars, next_iter,
                   cur, lock_vars, finished, diag, out_vars>>

\* variant of LockErr: the diagnostic is printed with both locks held
LockErr_with_gate_lock(w) ==
    /\ pc[w] = "lock_err" /\ g_err_mtx = 0 /\ g_mtx = 0
    /\ g_err_mtx' = w
    /\ g_mtx' = w
    /\ pc' = [pc EXCEPT ![w] = "diag"]
    /\ UNCHANGED <<cfg_vars, phase, plan_vars, match, budget_vars, next_iter,
                   cur, res, bytes_read, waiters, outcome, finished, diag, out_vars>>

\* line 114
LockErr(w) ==
    /\ pc[w] = "lock_err" /\ g_err_mtx = 0
    /\ g_err_mtx' = w
    /\ pc' = [pc EXCEPT ![w] = "diag"]
    /\ UNCHANGED <<cfg_vars, phase, plan_vars, match, budget_vars, next_iter,
                   cur, res, bytes_read, g_mtx, waiters, outcome, finished, diag, out_vars>>

\* variant of Diag: after the diagnostic the block is abandoned, also when
\* some bytes were read
Diag_abandons_short(w) ==
    /\ pc[w] = "diag" /\ g_err_mtx = w
    /\ diag' = diag \cup {[block |-> cur[w], failed |-> ~res[w]]}
    /\ pc' = [pc EXCEPT ![w] = "lock_fail"]
    /\ UNCHANGED <<cfg_vars, phase, plan_vars, match, budget_vars, next_iter,
                   cur, res, bytes_read, g_mtx, g_err_mtx, waiters, outcome, finished, out_vars>>

\* variant of Diag: after the diagnostic of a short read the match loop is
\* skipped
Diag_skips_match(w) ==
    /\ pc[w] = "diag" /\ g_err_mtx = w
    /\ diag' = diag \cup {[block |-> cur[w], failed |-> ~res[w]]}
    /\ IF ~res[w]
       THEN /\ pc' = [pc EXCEPT ![w] = "lock_fail"]
            /\ UNCHANGED g_err_mtx
       ELSE /\ pc' = [pc EXCEPT ![w] = "lock_release"]
            /\ g_err_mtx' = 0
    /\ UNCHANGED <<cfg_vars, phase, plan_vars, match, budget_vars, next_iter,
                   cur, res, bytes_read, g_mtx, waiters, outcome, finished, out_vars>>

\* lines 115-132: the diagnostic; a short read leaves the block at line 133,
\* a failed read goes on to line 127 with g_err_mtx held
Diag(w) ==
    /\ pc[w] = "diag" /\ g_err_mtx = w
    /\ diag' = diag \cup {[block |-> cur[w], failed |-> ~res[w]]}
    /\ IF ~res[w]
       THEN /\ pc' = [pc EXCEPT ![w] = "lock_fail"]
            /\ UNCHANGED g_err_mtx
       ELSE /\ pc' = [pc EXCEPT ![w] = "match"]
            /\ g_err_mtx' = 0
    /\ UNCHANGED <<cfg_vars, phase, plan_vars, match, budget_vars, next_iter,
                   cur, res, bytes_read, g_mtx, waiters, outcome, finished, out_vars>>

\* lines 109 and 127
LockFail(w) ==
    /\ pc[w] = "lock_fail" /\ g_mtx = 0
    /\ g_mtx' = w
    /\ pc' = [pc EXCEPT ![w] = "fail"]
    /\ UNCHANGED <<cfg_vars, phase, plan_vars, match, budget_vars, next_iter,
                   cur, res, bytes_read, g_err_mtx, waiters, outcome, finished, diag, out_vars>>

\* variant of Fail: the failure path continues without the subtraction
Fail_keeps_reservation(w) ==
    /\ pc[w] = "fail" /\ g_mtx = w
    /\ g_mtx' = 0
    /\ g_err_mtx' = IF g_err_mtx = w THEN 0 ELSE g_err_mtx
    /\ pc' = [pc EXCEPT ![w] = "claim"]
    /\ finished' = Append(finished, cur[w])
    /\ UNCHANGED <<cfg_vars, phase, plan_vars, match, budget_vars, next_iter,
                   cur, res, bytes_read, waiters, outcome, diag, out_vars>>

\* lines 110-111 and 128-129: release and continue; the locks held are
\* released when their scopes are left
Fail(w) ==
    /\ pc[w] = "fail" /\ g_mtx = w
    /\ g_memory_usage_bytes' = g_memory_usage_bytes - bytes_to_read(w)
    /\ ledger' = ledger_with("subtract", w)
    /\ g_mtx' = 0
    /\ g_err_mtx' = IF g_err_mtx = w THEN 0 ELSE g_err_mtx
    /\ pc' = [pc EXCEPT ![w] = "claim"]
    /\ finished' = Append(finished, cur[w])
    /\ UNCHANGED <<cfg_vars, phase, plan_vars, match, next_iter,
                   cur, res, bytes_read, waiters, outcome, diag, out_vars>>

\* lines 136-153
Match(w) ==
    /\ pc[w] = "match"
    /\ match' = [match EXCEPT ![cur[w] + 1] = @ \o search_block(ptr(w), bytes_read[w]).hits]
    /\ pc' = [pc EXCEPT ![w] = "lock_release"]
    /\ finished' = Append(finished, cur[w])
    /\ UNCHANGED <<cfg_vars, phase, plan_vars, budget_vars, next_iter,
                   cur, res, bytes_read, lock_vars, outcome, diag, out_vars>>

\* line 155
LockRelease(w) ==
    /\ pc[w] = "lock_release" /\ g_mtx = 0
    /\ g_mtx' = w
    /\ pc' = [pc EXCEPT ![w] = "release"]
    /\ UNCHANGED <<cfg_vars, phase, plan_vars, match, budget_vars, next_iter,
                   cur, res, bytes_read, g_err_mtx, waiters, outcome, finished, diag, out_vars>>

\* variant of Release: the bytes read are subtracted, not the bytes reserved
Release_subtracts_bytes_read(w) ==
    /\ pc[w] = "release" /\ g_mtx = w
    /\ g_memory_usage_bytes' = g_memory_usage_bytes - bytes_read[w]
    /\ ledger' = ledger_with("subtract", w)
    /\ g_mtx' = 0
    /\ pc' = [pc EXCEPT ![w] = "notify"]
    /\ UNCHANGED <<cfg_vars, phase, plan_vars, match, next_iter,
                   cur, res, bytes_read, g_err_mtx, waiters, outcome, finished, diag, out_vars>>

\* lines 156-157
Release(w) ==
    /\ pc[w] = "release" /\ g_mtx = w
    /\ g_memory_usage_bytes' = g_memory_usage_bytes - bytes_to_read(w)
    /\ ledger' = ledger_with("subtract", w)
    /\ g_mtx' = 0
    /\ pc' = [pc EXCEPT ![w] = "notify"]
    /\ UNCHANGED <<cfg_vars, phase, plan_vars, match, next_iter,
                   cur, res, bytes_read, g_err_mtx, waiters, outcome, finished, diag, out_vars>>

\* g_cv.notify_all(), line 158: every blocked worker goes on to take the lock
Notify(w) ==
    /\ pc[w] = "notify"
    /\ waiters' = {}
    /\ pc' = [v \in Workers |-> IF v = w THEN "claim"
                                 ELSE IF v \in waiters THEN "lock_gate" ELSE pc[v]]
    /\ UNCHANGED <<cfg_vars, phase, plan_vars, match, budget_vars, next_iter,
                   cur, res, bytes_read, g_mtx, g_err_mtx, outcome, finished, diag, out_vars>>

\* the steps of worker w that its thread takes when it is scheduled
WorkerStep(w) ==
    \/ Claim(w) \/ LockGate(w) \/ Gate(w) \/ Read(w) \/ LockErr(w) \/ Diag(w)
    \/ LockFail(w) \/ Fail(w) \/ Match(w) \/ LockRelease(w) \/ Release(w) \/ Notify(w)

\* the implicit barrier at the end of the parallel loop, line 159
Join ==
    /\ phase = "scan"
    /\ \A w \in Workers : pc[w] \in {"done", "off"}
    /\ phase' = "joined"
    /\ UNCHANGED <<cfg_vars, plan_vars, match, budget_vars, next_iter,
                   worker_vars, lock_vars, outcome, finished, diag, out_vars>>

\* lines 165-206
Aggregate ==
    /\ phase = "joined"
    /\ LET num_matches == SumLens(match)
       IN IF num_matches = 0
          THEN printed' = <<>> /\ result' = "no_matches"
          ELSE IF too_many_results(num_matches)
          THEN printed' = <<>> /\ result' = "too_many"
          ELSE /\ printed' = print_blocks(0, [prev_match |-> NoPrevMatch, out |-> <<>>]).out
               /\ result' = "listed"
    /\ phase' = "returned"
    /\ UNCHANGED <<cfg_vars, plan_vars, match, budget_vars, next_iter,
                   worker_vars, lock_vars, outcome, finished, diag>>

Next ==
    \/ Plan
    \/ \E w \in Workers : WorkerStep(w)
    \/ \E w \in Workers : SpuriousWakeup(w)
    \/ Join
    \/ Aggregate

Spec == Init /\ [][Next]_vars

(***************************************************************************)
(* The planner, the match loop and the aggregation as functions of the     *)
(* target: one region of every size, a run of "A"s anywhere in it, every   *)
(* stride and pattern, each block read in full by a single worker.         *)
(***************************************************************************)
PatternSet ==
    {Repeat("A", 1), Repeat("A", 2), <<"A", "B">>, Repeat("A", VecWidth + 1)}

InitOneRegion ==
    /\ Entry
    /\ quiet = NoQuiet
    /\ \E R \in 1..MaxRegionSize :
          LET layout == <<<<MEM_FREE, alloc_granularity>>, <<MEM_COMMIT, R>>>>
          IN /\ regions = lay_out(layout, 0)
             /\ pattern \in PatternSet
             /\ \E at \in alloc_granularity..(alloc_granularity + R - 1) :
                \E len \in {0, 1, 2, 4, 5, pattern_len} :
                   /\ at + len <= alloc_granularity + R
                   /\ mem = run_memory(TotalSize(layout), at, len)
    /\ g_num_alloc_blocks \in {1, MaxAllocBlocks}
    /\ g_memory_limit = bytes_to_read_ideal
    /\ g_max_omp_threads = 1
    /\ g_show_failed_readings = FALSE

\* the whole parallel loop, lines 80-159, run by one worker with every read
\* returning all the bytes asked for
ScanAll ==
    /\ phase = "scan"
    /\ next_iter = 0
    /\ \A w \in Workers : pc[w] \in {"claim", "off"}
    /\ match' = [k \in 1..Len(blocks) |-> search_block(blocks[k].ptr, blocks[k].size).hits]
    /\ outcome' = [k \in 1..Len(blocks) |-> [kind |-> "full", n |-> blocks[k].size]]
    /\ next_iter' = Len(blocks)
    /\ pc' = [w \in Workers |-> IF pc[w] = "claim" THEN "done" ELSE pc[w]]
    /\ finished' = [k \in 1..Len(blocks) |-> k - 1]
    /\ phase' = "joined"
    /\ UNCHANGED <<cfg_vars, plan_vars, budget_vars, cur, res, bytes_read,
                   lock_vars, diag, out_vars>>

NextOneRegion == Plan \/ ScanAll \/ Aggregate

SpecOneRegion == InitOneRegion /\ [][NextOneRegion]_vars

(***************************************************************************)
(* run_process_inspection, lines 327-354: the command loop around          *)
(* find_pattern.  A line is a sequence of characters, cmd[i] is            *)
(* ch(cmd, i); the blank lines the loop prints are left out of console.    *)
(***************************************************************************)
NUL == ""   \* the terminator of a C string

\* (DWORD)(-1), the pid of a context with no target, line 335; ULONG_MAX
DWORD_MAX == 2^DwordBits - 1

ch(line, i) == IF i < Len(line) THEN line[i + 1] ELSE NUL

\* the argument of a command: past the command word and the blanks after
\* it, <<>> standing for nullptr
RECURSIVE skip_word(_)
skip_word(s) == IF s = <<>> \/ Head(s) = " " THEN s ELSE skip_word(Tail(s))

RECURSIVE skip_blanks(_)
skip_blanks(s) == IF s # <<>> /\ Head(s) = " " THEN skip_blanks(Tail(s)) ELSE s

skip_to_args(line) == skip_blanks(skip_word(line))

Digits ==
    <<"0", "1", "2", "3", "4", "5", "6", "7", "8", "9", "a", "b", "c", "d", "e", "f">>

is_digit(c, base) == \E v \in 1..base : Digits[v] = c

digit_value(c) == (CHOOSE v \in 1..Len(Digits) : Digits[v] = c) - 1

has_0x(args) == Len(args) >= 2 /\ args[1] = "0" /\ args[2] = "x"

\* a 0x prefix, or a digit that only base 16 has
is_hex(args) ==
    \/ has_0x(args)
    \/ \E k \in 1..Len(args) : is_digit(args[k], 16) /\ ~is_digit(args[k], 10)

\* strtoul of an unsigned number: the value of the longest prefix of digits
\* of the base, saturating at ULONG_MAX, and the number of characters used
RECURSIVE strtoul_digits(_, _, _, _)
strtoul_digits(s, base, acc, used) ==
    IF s # <<>> /\ is_digit(Head(s), base)
    THEN strtoul_digits(Tail(s), base,
                        _min(acc * base + digit_value(Head(s)), DWORD_MAX), used + 1)
    ELSE [value |-> acc, end |-> used]

strtoul(args, base) ==
    IF base = 16 /\ has_0x(args) /\ is_digit(ch(args, 2), base)
    THEN strtoul_digits(Tail(Tail(args)), base, 0, 2)
    ELSE strtoul_digits(args, base, 0, 0)

unknown_command == "Unknown command."

\* lines 219-267; ctx_pid is ctx->pid at the call
parse_command(ctx_pid, line) ==
    IF ch(line, 0) = "p"
    THEN LET args == skip_to_args(line)
             parsed == strtoul(args, IF is_hex(args) THEN 16 ELSE 10)
         IN IF args = <<>>
            THEN [command |-> "c_continue", pid |-> ctx_pid, out |-> <<"PID missing.">>]
            ELSE IF parsed.end = 0
            THEN [command |-> "c_quit_program", pid |-> ctx_pid,
                  out |-> <<"Invalid PID! Exiting...">>]
            ELSE [command |-> "c_continue", pid |-> parsed.value, out |-> <<>>]
    ELSE IF ch(line, 0) = "l"
    THEN IF ch(line, 1) = "p"
         THEN [command |-> "c_list_pids", pid |-> ctx_pid, out |-> <<>>]
         ELSE IF ch(line, 1) = "M"
         THEN [command |-> "c_list_modules", pid |-> ctx_pid, out |-> <<>>]
         ELSE IF ch(line, 1) = "t"
         THEN [command |-> "c_list_threads", pid |-> ctx_pid, out |-> <<>>]
         ELSE [command |-> "c_continue", pid |-> ctx_pid, out |-> <<unknown_command>>]
    ELSE IF ch(line, 0) = "t" /\ ch(line, 1) = "h"
    THEN IF ch(line, 2) = NUL
         THEN [command |-> "c_travers_heap", pid |-> ctx_pid, out |-> <<>>]
         ELSE IF ch(line, 2) = "e"
         THEN [command |-> "c_travers_heap_calc_entropy", pid |-> ctx_pid, out |-> <<>>]
         ELSE IF ch(line, 2) = "b"
         THEN [command |-> "c_travers_heap_blocks", pid |-> ctx_pid, out |-> <<>>]
         ELSE [command |-> "c_continue", pid |-> ctx_pid, out |-> <<unknown_command>>]
    ELSE [command |-> "c_continue", pid |-> ctx_pid, out |-> <<unknown_command>>]

\* find_pattern is entered: its locals are fresh, the global counter is
\* what the last scan left
find_pattern_entry ==
    /\ phase' = "entry"
    /\ info' = <<>> /\ blocks' = <<>> /\ match' = <<>>
    /\ num_threads' = 0
    /\ UNCHANGED budget_vars
    /\ next_iter' = 0
    /\ pc' = [w \in Workers |-> "off"]
    /\ cur' = [w \in Workers |-> 0]
    /\ res' = [w \in Workers |-> TRUE]
    /\ bytes_read' = [w \in Workers |-> 0]
    /\ g_mtx' = 0 /\ g_err_mtx' = 0 /\ waiters' = {}
    /\ outcome' = <<>>
    /\ finished' = <<>>
    /\ diag' = {}
    /\ printed' = <<>> /\ result' = "running"

\* variant of refused: the listings of a target are exempt as well
refused_spares_listings(c, p) ==
    /\ c \notin {"c_help", "c_list_pids", "c_list_modules", "c_list_threads"}
    /\ p = DWORD_MAX

\* line 270: the command needs a target and the context has none
refused(c, p) == c # "c_help" /\ c # "c_list_pids" /\ p = DWORD_MAX

\* lines 299-321: the commands that return at once
dispatch(c, p) ==
    CASE c = "c_help" -> [calls |-> <<>>, out |-> <<"print_help_common", "print_help">>]
      [] c = "c_search_pattern_in_registers" ->
            [calls |-> <<>>, out |-> <<"Command not implemented.">>]
      [] c = "c_list_pids" -> [calls |-> <<<<"list_processes">>>>, out |-> <<>>]
      [] c = "c_list_modules" -> [calls |-> <<<<"list_process_modules", p>>>>, out |-> <<>>]
      [] c = "c_list_threads" -> [calls |-> <<<<"list_process_threads", p>>>>, out |-> <<>>]
      [] c = "c_travers_heap" ->
            [calls |-> <<<<"traverse_heap_list", p, FALSE, FALSE>>>>, out |-> <<>>]
      [] c = "c_travers_heap_calc_entropy" ->
            [calls |-> <<<<"traverse_heap_list", p, FALSE, TRUE>>>>, out |-> <<>>]
      [] c = "c_travers_heap_blocks" ->
            [calls |-> <<<<"traverse_heap_list", p, TRUE, FALSE>>>>, out |-> <<>>]
      [] OTHER -> [calls |-> <<>>, out |-> <<unknown_command>>]

separator == "===================================="

\* lines 269-325, up to the call of find_pattern for a search; process_ok
\* tells whether OpenProcess returns a handle, out is what the parser printed
execute_command(c, p, out, process_ok) ==
    IF refused(c, p)
    THEN /\ console' = out \o <<"Select the PID first!">>
         /\ os_calls' = <<>>
         /\ repl_pc' = "prompt"
         /\ UNCHANGED scan_vars
    ELSE IF c = "c_search_pattern"
    THEN IF ~process_ok
         THEN /\ console' = out \o <<"Failed opening the process.">>
              /\ os_calls' = <<<<"OpenProcess", p>>>>
              /\ repl_pc' = "prompt"
              /\ UNCHANGED scan_vars
         ELSE /\ console' = out
              /\ os_calls' = search_calls(p)
              /\ repl_pc' = "scanning"
              /\ find_pattern_entry
    ELSE /\ console' = out \o dispatch(c, p).out \o <<separator>>
         /\ os_calls' = dispatch(c, p).calls
         /\ repl_pc' = "prompt"
         /\ UNCHANGED scan_vars

\* variant of CloseHandle: the handle is closed after a listing only
CloseHandle_after_listing ==
    /\ repl_pc = "scanning"
    /\ phase = "returned"
    /\ os_calls' = IF result = "listed" THEN Append(os_calls, <<"CloseHandle">>)
                   ELSE os_calls
    /\ console' = Append(console, separator)
    /\ repl_pc' = "prompt"
    /\ UNCHANGED <<quiet, pid, command, cmd, target_vars, pattern, scan_vars>>

\* lines 295-297 and 323: find_pattern has returned
CloseHandle ==
    /\ repl_pc = "scanning"
    /\ phase = "returned"
    /\ os_calls' = Append(os_calls, <<"CloseHandle">>)
    /\ console' = Append(console, separator)
    /\ repl_pc' = "prompt"
    /\ UNCHANGED <<quiet, pid, command, cmd, target_vars, pattern, scan_vars>>

\* the lines the operator types that parse_command_common leaves to
\* parse_command
Lines ==
    { <<"p", " ", "1", "2">>, <<"p", " ", "1", "f">>, <<"p", " ", "0", "x", "1", "0">>,
      <<"p", " ", "f", "f", "f", "f", "f", "f", "f", "f">>,
      <<"p">>, <<"p", " ", "z">>,
      <<"l", "p">>, <<"l", "M">>, <<"l", "t">>, <<"l">>,
      <<"t", "h">>, <<"t", "h", "e">>, <<"t", "h", "b">>, <<"t", "h", "z">>,
      <<"x">>, <<>> }

\* parse_command_common is not part of this file: a line it takes for itself
\* is written common_line, and what it makes of it is part of the input: q
\* quits, a search comes with its pattern in data
common_line == <<"/">>

\* the inputs of one iteration: the line typed, what parse_command_common
\* returns for it, the pattern it stores, whether OpenProcess finds the target
Inputs ==
    [line : Lines, common : {"c_not_set"}, data : {<<>>}, process_ok : {TRUE}]
    \cup [line : {<<"q">>}, common : {"c_quit_program"}, data : {<<>>}, process_ok : {TRUE}]
    \cup [line : {common_line},
          common : {"c_help", "c_continue", "c_search_pattern_in_registers"},
          data : {<<>>}, process_ok : {TRUE}]
    \cup [line : {common_line}, common : {"c_search_pattern"},
          data : {Repeat("A", 1), Repeat("A", 2)}, process_ok : BOOLEAN]

parse_command_common(input) == input.common

\* one iteration of the loop, lines 341-351
run_process_inspection ==
    /\ repl_pc = "prompt"
    /\ \E input \in Inputs :
          LET first == parse_command_common(input)
              parsed == IF first = "c_not_set" THEN parse_command(pid, input.line)
                        ELSE [command |-> first, pid |-> pid, out |-> <<>>]
          IN /\ command' = input.line
             /\ cmd' = parsed.command
             /\ pid' = parsed.pid
             /\ pattern' = IF first = "c_search_pattern" THEN input.data ELSE pattern
             /\ IF parsed.command = "c_quit_program"
                THEN /\ repl_pc' = "exited"
                     /\ console' = parsed.out
                     /\ os_calls' = <<>>
                     /\ UNCHANGED scan_vars
                ELSE IF parsed.command = "c_continue"
                THEN /\ repl_pc' = "prompt"
                     /\ console' = parsed.out
                     /\ os_calls' = <<>>
                     /\ UNCHANGED scan_vars
                ELSE execute_command(parsed.command, parsed.pid, parsed.out,
                                     input.process_ok)
    /\ UNCHANGED <<quiet, target_vars>>

\* a session with a target of one region: no target selected, no pattern
InitRepl ==
    /\ quiet = NoQuiet
    /\ pid = DWORD_MAX
    /\ repl_pc = "prompt"
    /\ command = <<>> /\ cmd = "c_not_set"
    /\ os_calls = <<>> /\ console = <<>>
    /\ pattern = <<>>
    /\ g_num_alloc_blocks = MaxAllocBlocks
    /\ g_memory_limit = block_size + VecWidth
    /\ g_max_omp_threads = 1
    /\ g_show_failed_readings = FALSE
    /\ LET layout == <<<<MEM_FREE, alloc_granularity>>, <<MEM_COMMIT, MaxResults + VecWidth>>>>
       IN /\ regions = lay_out(layout, 0)
          /\ \E len \in {0, 2, MaxResults + 3} :
                mem = run_memory(TotalSize(layout), alloc_granularity + 1, len)
    /\ phase = "idle"
    /\ info = <<>> /\ blocks = <<>> /\ match = <<>>
    /\ num_threads = 0
    /\ g_memory_usage_bytes = 0
    /\ ledger = <<>>
    /\ next_iter = 0
    /\ pc = [w \in Workers |-> "off"]
    /\ cur = [w \in Workers |-> 0]
    /\ res = [w \in Workers |-> TRUE]
    /\ bytes_read = [w \in Workers |-> 0]
    /\ g_mtx = 0 /\ g_err_mtx = 0 /\ waiters = {}
    /\ outcome = <<>>
    /\ finished = <<>>
    /\ diag = {}
    /\ printed = <<>> /\ result = "running"

NextRepl == run_process_inspection \/ Plan \/ ScanAll \/ Aggregate \/ CloseHandle

SpecRepl == InitRepl /\ [][NextRepl]_vars

(***************************************************************************)
(* Two calls of find_pattern on one target, g_show_failed_readings off in  *)
(* the first and on in the second.  What the first did is kept in quiet.   *)
(***************************************************************************)
InitTwoScans ==
    /\ Entry
    /\ quiet = [NoQuiet EXCEPT !.state = "first"]
    /\ LET layout == <<<<MEM_FREE, alloc_granularity>>,
                       <<MEM_COMMIT, alloc_granularity * MaxAllocBlocks + VecWidth + 2 * alloc_granularity>>>>
       IN /\ regions = lay_out(layout, 0)
          /\ mem = run_memory(TotalSize(layout), alloc_granularity * MaxAllocBlocks, alloc_granularity)
    /\ pattern = Repeat("A", 1)
    /\ g_num_alloc_blocks = MaxAllocBlocks
    /\ g_memory_limit \in {bytes_to_read_ideal, bytes_to_read_ideal + extra_chunk}
    /\ g_max_omp_threads \in 1..MaxOmpThreads
    /\ g_show_failed_readings = FALSE

\* the first call has reached the end of its parallel loop (line 159); the
\* flag is switched on and find_pattern is called again
SecondScan ==
    /\ quiet.state = "first"
    /\ phase = "joined"
    /\ quiet' = [state |-> "second", blocks |-> blocks, outcome |-> outcome,
                 match |-> match, ledger |-> ledger]
    /\ g_show_failed_readings' = TRUE
    /\ find_pattern_entry
    /\ UNCHANGED <<repl_vars, regions, mem, g_num_alloc_blocks, g_memory_limit,
                   g_max_omp_threads, pattern>>

NextTwoScans ==
    \/ Plan
    \/ \E w \in Workers : WorkerStep(w)
    \/ \E w \in Workers : SpuriousWakeup(w)
    \/ Join
    \/ SecondScan

SpecTwoScans == InitTwoScans /\ [][NextTwoScans]_vars

(***************************************************************************)
(* Properties of the scan.                                                 *)
(***************************************************************************)
\* the positions at which a worker has been admitted for its block and has not
\* yet subtracted its size
Holding == {"read", "lock_err", "diag", "lock_fail", "fail", "match",
            "lock_release", "release"}

RECURSIVE SumSizes(_)
SumSizes(ws) ==
    IF ws = {} THEN 0
    ELSE LET w == CHOOSE v \in ws : TRUE
         IN bytes_to_read(w) + SumSizes(ws \ {w})

\* sum of the sizes of the blocks admitted and not yet released
InFlightBytes == SumSizes({w \in Workers : pc[w] \in Holding})

\* the counter is the sum of the sizes of the blocks in flight
CounterIsInFlight == g_memory_usage_bytes = InFlightBytes

\* C1: budget safety: with a budget of at least one full block, in every
\* state of a scan the in-flight counter, which is the sum of the sizes of
\* the blocks admitted and not yet released, is at most the byte budget.
C1_BudgetSafety ==
    (phase = "scan" /\ g_memory_limit >= bytes_to_read_ideal)
        => /\ g_memory_usage_bytes = InFlightBytes
           /\ g_memory_usage_bytes <= g_memory_limit

\* the addresses of the match lines printed
PrintedAddrs == {k \in 1..Len(printed) : printed[k].kind = "match"}

\* C2: no duplicates: the aggregation prints each match address at most once
\* per scan.
C2_NoDuplicates ==
    \A j, k \in PrintedAddrs : printed[j].addr = printed[k].addr => j = k

\* C3: termination: with a budget of at least S + overlap and at least one
\* worker every scan reaches the end of the parallel loop, whatever the reads
\* return; so no worker is ever left blocked in g_cv.wait when every other
\* worker has left the loop or is blocked too, and no broadcast can follow.
C3_Termination ==
    (phase = "scan" /\ num_threads >= 1 /\ g_memory_limit >= bytes_to_read_ideal)
        => ~ /\ \E w \in Workers : pc[w] = "wait"
             /\ \A w \in Workers : pc[w] \in {"wait", "done", "off"}

\* C4: release and signal on every completion: a worker that was admitted for
\* a block claims its next block or exits only from the broadcast of line
\* 158, which follows the subtraction of the block's size.
C4_SignalOnCompletion ==
    [][\A w \in Workers :
          (phase = "scan" /\ pc[w] # "claim" /\ pc'[w] = "claim") => pc[w] = "notify"]_vars

\* C10: budget misconfiguration is rejected at scan entry: when a full block
\* S + overlap is larger than the budget, the scan stops before its workers
\* run: no block is admitted or read.
C10_MisconfigurationRejected ==
    (bytes_to_read_ideal > g_memory_limit)
        => /\ g_memory_usage_bytes = 0
           /\ \A k \in 1..Len(outcome) : outcome[k].kind = "none"

(***************************************************************************)
(* Properties of the planner, the match loop and the aggregation.          *)
(***************************************************************************)
BlocksOf(id) == {k \in 1..Len(blocks) : blocks[k].info_id = id}
BlockRange(k) == blocks[k].ptr..(blocks[k].ptr + blocks[k].size - 1)
RegionRange(id) ==
    At(info, id).BaseAddress..(At(info, id).BaseAddress + At(info, id).RegionSize - 1)
InfoIds == 0..(Len(info) - 1)

\* C5: coverage: for every region the planner kept, the union of the ranges
\* of its blocks is exactly the range of the region, and a region smaller
\* than S + overlap has exactly one block, which covers it.
C5_Coverage ==
    \A id \in InfoIds :
        /\ At(info, id).State = MEM_COMMIT /\ At(info, id).RegionSize >= pattern_len
        /\ UNION {BlockRange(k) : k \in BlocksOf(id)} = RegionRange(id)
        /\ At(info, id).RegionSize < block_size + extra_chunk
              => \E k \in BlocksOf(id) :
                    /\ BlocksOf(id) = {k}
                    /\ BlockRange(k) = RegionRange(id)

\* a region cut into three or more blocks, the last one shorter than a full block
C5_Witness ==
    \E id \in InfoIds :
        /\ Cardinality(BlocksOf(id)) >= 3
        /\ \E k \in BlocksOf(id) :
              /\ blocks[k].size < bytes_to_read_ideal
              /\ blocks[k].ptr + blocks[k].size
                    = At(info, id).BaseAddress + At(info, id).RegionSize

\* pattern_len rounded up to a multiple of 16
Overlap ==
    CHOOSE m \in pattern_len..(pattern_len + 15) : m % 16 = 0

\* C6: overlap: two consecutive blocks of one region intersect in exactly
\* overlap bytes, overlap being pattern_len rounded up to a multiple of 16.
C6_Overlap ==
    \A k \in 1..(Len(blocks) - 1) :
        blocks[k].info_id = blocks[k + 1].info_id
            => Cardinality(BlockRange(k) \cap BlockRange(k + 1)) = Overlap

\* the last full-size block and a shorter final block, with a pattern length
\* that is not a multiple of 16
C6_Witness ==
    \E k \in 1..(Len(blocks) - 1) :
        /\ blocks[k].info_id = blocks[k + 1].info_id
        /\ blocks[k].size = bytes_to_read_ideal
        /\ blocks[k + 1].size < bytes_to_read_ideal
        /\ pattern_len = VecWidth + 1
        /\ Cardinality(BlockRange(k) \cap BlockRange(k + 1)) = 2 * VecWidth

\* TRUE iff the pattern occurs at address a of the target
occurs_at(a) ==
    \A j \in 1..pattern_len :
        (a + j - 1) \in DOMAIN mem /\ mem[a + j - 1] = pattern[j]

AllReadInFull ==
    \A k \in 1..Len(outcome) : outcome[k].kind = "full"

\* C7: match completeness: when the loop has ended and every block was read
\* in full, every occurrence of the pattern that lies inside one region the
\* planner kept lies inside a block of that region and is in the match list
\* of that block.
C7_MatchCompleteness ==
    (phase \in {"joined", "returned"} /\ AllReadInFull)
        => \A id \in InfoIds : \A a \in RegionRange(id) :
              (occurs_at(a) /\ (a + pattern_len - 1) \in RegionRange(id))
                  => \E k \in BlocksOf(id) :
                        /\ a \in BlockRange(k)
                        /\ (a + pattern_len - 1) \in BlockRange(k)
                        /\ a \in Range(match[k])

\* an occurrence that starts on the last byte before the first stride boundary
\* of a region of two or more blocks
C7_Witness ==
    /\ phase = "joined" /\ AllReadInFull
    /\ pattern_len >= 2
    /\ \E id \in InfoIds :
          LET a == At(info, id).BaseAddress + block_size - 1
          IN /\ Cardinality(BlocksOf(id)) >= 2
             /\ occurs_at(a)
             /\ \E k \in BlocksOf(id) : a \in Range(match[k])

StrictlyIncreasing(seq) ==
    \A j, k \in 1..Len(seq) : j < k => seq[j] < seq[k]

\* C8: order: the addresses recorded for a block are strictly increasing, the
\* lines printed go by ascending block index, and the addresses printed for
\* one block are strictly increasing.
C8_Order ==
    /\ \A k \in 1..Len(match) : StrictlyIncreasing(match[k])
    /\ \A j, k \in 1..Len(printed) :
          j < k => /\ printed[j].block <= printed[k].block
                   /\ (printed[j].block = printed[k].block
                          /\ printed[j].kind = "match" /\ printed[k].kind = "match")
                         => printed[j].addr < printed[k].addr

\* a listing of the matches of two blocks of which the later one ended first
C8_Witness ==
    /\ result = "listed"
    /\ \E j, k \in 1..Len(finished) : j < k /\ finished[j] > finished[k]
    /\ \E j, k \in PrintedAddrs : printed[j].block # printed[k].block

\* the offsets at which the pattern lies inside the first n bytes read from p
Occurrences(p, n) ==
    {o \in 0..(n - pattern_len) : \A j \in 1..pattern_len : mem[p + o + j - 1] = pattern[j]}

\* C9: self-overlapping patterns: the match list of a block holds every offset
\* at which the pattern occurs in the bytes read, once each; each search after
\* a match starts one byte after the start of that match and covers exactly
\* the rest of the bytes read; AA over AAAA gives offsets 0, 1, 2 and over
\* AAAAA offsets 0, 1, 2, 3.
C9_SelfOverlap ==
    phase \in {"joined", "returned"}
        => \A k \in 1..Len(blocks) :
              LET b == blocks[k]
                  n == outcome[k].n
                  calls == search_block(b.ptr, n).calls
                  bytes == [o \in 0..(n - 1) |-> mem[b.ptr + o]]
              IN /\ Range(match[k]) = {b.ptr + o : o \in Occurrences(b.ptr, n)}
                 /\ Len(match[k]) = Cardinality(Occurrences(b.ptr, n))
                 /\ \A c \in 1..Len(calls) :
                       /\ calls[c][1] + calls[c][2] = n
                       /\ calls[c][1] = IF c = 1 THEN 0 ELSE match[k][c - 1] - b.ptr + 1
                 /\ (pattern = <<"A", "A">> /\ bytes = [o \in 0..3 |-> "A"])
                       => match[k] = <<b.ptr, b.ptr + 1, b.ptr + 2>>
                 /\ (pattern = <<"A", "A">> /\ bytes = [o \in 0..4 |-> "A"])
                       => match[k] = <<b.ptr, b.ptr + 1, b.ptr + 2, b.ptr + 3>>

\* the pattern AA matched over a block that holds AAAA
C9_Witness ==
    /\ phase = "joined"
    /\ pattern = <<"A", "A">>
    /\ \E k \in 1..Len(blocks) :
          /\ blocks[k].size = 4
          /\ \A o \in 0..3 : mem[blocks[k].ptr + o] = "A"
          /\ match[k] = <<blocks[k].ptr, blocks[k].ptr + 1, blocks[k].ptr + 2>>

(***************************************************************************)
(* Properties of the handling of read errors.                              *)
(***************************************************************************)
\* TRUE iff the iteration of block index i has ended
Ended(i) == i \in Range(finished)

C14_ShortRead ==
    /\ [](\A k \in 1..Len(blocks) :
              outcome[k].kind = "short"
                  => /\ Ended(k - 1)
                          => /\ Range(match[k])
                                  = {blocks[k].ptr + o : o \in Occurrences(blocks[k].ptr, outcome[k].n)}
                             /\ Len(match[k]) = Cardinality(Occurrences(blocks[k].ptr, outcome[k].n))
                     /\ \A a \in Range(match[k]) :
                          a < blocks[k].ptr + outcome[k].n - pattern_len + 1
                     /\ \A w \in Workers :
                          (pc[w] \in Holding /\ cur[w] = k - 1) => pc[w] \notin {"lock_fail", "fail"})
    /\ [][\A w \in Workers :
             (phase = "scan" /\ pc[w] \in Holding /\ outcome[cur[w] + 1].kind = "short")
                 => /\ pc'[w] # "claim"
                    /\ pc'[w] = "notify"
                          => g_memory_usage_bytes' = g_memory_usage_bytes - bytes_to_read(w)]_vars

\* with verbose reads on, a short read whose prefix holds matches has ended
\* and its diagnostic is printed
C14_Witness ==
    /\ g_show_failed_readings
    /\ \E k \in 1..Len(blocks) :
          /\ outcome[k].kind = "short"
          /\ Ended(k - 1)
          /\ match[k] # <<>>
          /\ [block |-> k - 1, failed |-> FALSE] \in diag

(***************************************************************************)
(* Properties of the distribution of the blocks over the workers.          *)
(***************************************************************************)
\* the positions of a worker inside an iteration of the loop body
InIteration == {"lock_gate", "gate", "wait"} \cup Holding \cup {"notify"}

\* the workers inside the iteration of block index i
HoldersOf(i) == {w \in Workers : pc[w] \in InIteration /\ cur[w] = i}

\* the number of times block index i is in the sequence of ended iterations
TimesEnded(i) == Cardinality({j \in 1..Len(finished) : finished[j] = i})

\* C15: disjoint work: every block index handed out is held by exactly one
\* worker from its claim to the end of its iteration and is never handed out
\* again; when the loop has ended every block has been processed exactly
\* once; and a match list changes only in a step of the one worker that holds
\* its block.
C15_DisjointWork ==
    /\ [](/\ phase = "scan"
                => \A i \in 0..(Len(blocks) - 1) :
                      /\ i < next_iter => Cardinality(HoldersOf(i)) <= 1
                      /\ i >= next_iter => HoldersOf(i) = {} /\ TimesEnded(i) = 0
                      /\ TimesEnded(i) <= 1
                      /\ (i < next_iter /\ TimesEnded(i) = 0) => Cardinality(HoldersOf(i)) = 1
          /\ phase = "joined"
                => \A i \in 0..(Len(blocks) - 1) : TimesEnded(i) = 1)
    /\ [][\A k \in 1..Len(match) :
             (phase = "scan" /\ match'[k] # match[k])
                 => \E w \in Workers :
                       /\ HoldersOf(k - 1) = {w}
                       /\ pc[w] = "match" /\ pc'[w] # "match"
                       /\ TimesEnded(k - 1) = 0]_vars

\* two workers inside the iterations of two different blocks, one of them
\* writing its match list while the other block's list is already written
C15_Witness ==
    \E w, v \in Workers :
        /\ w # v
        /\ pc[w] = "lock_release" /\ pc[v] = "match"
        /\ cur[w] # cur[v]
        /\ match[cur[w] + 1] # <<>>

(***************************************************************************)
(* Properties of the block sizes and the worker buffers.                   *)
(***************************************************************************)
\* C16: block size bounds: every block is at least pattern_len and at most
\* S + overlap bytes long, the final block of a region of two or more blocks
\* is at least overlap bytes long, no read returns more bytes than the block
\* or the S + overlap bytes of a buffer, and the thread index of every worker
\* in the loop is an index of the vector of num_threads buffers.
C16_BlockSizeBounds ==
    /\ \A k \in 1..Len(blocks) :
          /\ pattern_len <= blocks[k].size
          /\ blocks[k].size <= block_size + extra_chunk
          /\ (k > 1 /\ blocks[k - 1].info_id = blocks[k].info_id)
                => blocks[k].size >= Overlap
          /\ outcome[k].n <= blocks[k].size
    /\ \A w \in Workers :
          pc[w] # "off" => /\ 0 <= w - 1 /\ w - 1 < num_threads
                           /\ bytes_read[w] <= block_size + extra_chunk

\* a region cut into a full block and a final block of exactly overlap bytes,
\* both read
C16_Witness ==
    /\ phase = "joined"
    /\ \E k \in 2..Len(blocks) :
          /\ blocks[k - 1].info_id = blocks[k].info_id
          /\ blocks[k - 1].size = bytes_to_read_ideal
          /\ blocks[k].size = Overlap
          /\ outcome[k].n = Overlap

(***************************************************************************)
(* Properties of the region enumeration.                                   *)
(***************************************************************************)
\* a region the planner keeps
Kept(r) == r.State = MEM_COMMIT /\ r.RegionSize >= pattern_len

\* C17: region enumeration: the descriptors are the committed regions of
\* size >= pattern_len among the regions queried before the query failed, in
\* ascending address order; every block lies in such a region and every
\* descriptor has blocks; and the scan goes on over them: when the loop has
\* ended every block has been read.
C17_RegionEnumeration ==
    phase # "entry"
        => /\ \E n \in 0..Len(regions) : info = SelectSeq(SubSeq(regions, 1, n), Kept)
           /\ \A j, k \in 1..Len(info) :
                 j < k => info[j].BaseAddress + info[j].RegionSize <= info[k].BaseAddress
           /\ \A k \in 1..Len(blocks) :
                 \E j \in 1..Len(regions) :
                    /\ Kept(regions[j])
                    /\ regions[j].BaseAddress <= blocks[k].ptr
                    /\ blocks[k].ptr + blocks[k].size
                          <= regions[j].BaseAddress + regions[j].RegionSize
           /\ \A j, k \in 1..Len(blocks) : j < k => blocks[j].ptr < blocks[k].ptr
           /\ \A id \in InfoIds : BlocksOf(id) # {}
           /\ phase = "joined" => \A k \in 1..Len(blocks) : outcome[k].kind # "none"

\* the query failed before a committed region of the target: the regions
\* before it are kept, one region between them was skipped, and their blocks
\* have been read
C17_Witness ==
    /\ phase = "joined"
    /\ Len(info) >= 1 /\ Len(blocks) >= 1
    /\ \E j \in 1..Len(regions) :
          /\ Kept(regions[j])
          /\ \A k \in 1..Len(info) : info[k] # regions[j]
          /\ \E i \in 1..(j - 1) : ~Kept(regions[i])
    /\ \A k \in 1..Len(blocks) : outcome[k].kind # "none"

\* the header line under which line j of the listing is printed, 0 if none
HeaderOf(j) ==
    LET hs == {h \in 1..j : printed[h].kind = "header"}
    IN IF hs = {} THEN 0 ELSE CHOOSE h \in hs : \A g \in hs : g <= h

\* C18: block-to-region link: the descriptor index of every block is an index
\* of the descriptor table and the block lies inside that descriptor's
\* region; every match address printed lies inside the region of the
\* descriptor printed as its header.
C18_BlockRegionLink ==
    /\ \A k \in 1..Len(blocks) :
          /\ blocks[k].info_id \in InfoIds
          /\ BlockRange(k) \subseteq RegionRange(blocks[k].info_id)
    /\ \A j \in PrintedAddrs :
          /\ HeaderOf(j) # 0
          /\ printed[HeaderOf(j)].addr \in InfoIds
          /\ printed[j].addr \in RegionRange(printed[HeaderOf(j)].addr)

\* a match printed under the descriptor of a region that follows regions the
\* planner skipped
C18_Witness ==
    /\ result = "listed"
    /\ \E j \in PrintedAddrs :
          LET id == printed[HeaderOf(j)].addr
          IN /\ id >= 1
             /\ At(info, id - 1).BaseAddress + At(info, id - 1).RegionSize
                   < At(info, id).BaseAddress
             /\ printed[j].addr \in RegionRange(id)

(***************************************************************************)
(* Properties of the two locks.                                            *)
(***************************************************************************)
\* C19: lock discipline: the gate lock is held only in the admission check
\* and in the two subtractions, never while its owner reads the target or
\* prints a diagnostic; the diagnostic lock is held only from the diagnostic
\* to the end of the failure path; a worker holds both locks only after it
\* took the diagnostic lock first, and no worker waits for the diagnostic
\* lock while it holds the gate lock.
C19_LockDiscipline ==
    /\ [](\A w \in Workers :
             /\ g_mtx = w => pc[w] \in {"gate", "fail", "release"}
             /\ pc[w] \in {"read", "lock_err", "diag", "match"} => g_mtx # w
             /\ g_err_mtx = w => pc[w] \in {"diag", "lock_fail", "fail"}
             /\ (g_mtx = w /\ g_err_mtx = w) => pc[w] = "fail")
    /\ [][\A w \in Workers :
             /\ (g_err_mtx # w /\ g_err_mtx' = w) => (g_mtx # w /\ g_mtx' # w)
             /\ (g_mtx # w /\ g_mtx' = w) => (g_mtx = 0 /\ g_err_mtx' = g_err_mtx)]_vars

\* one worker prints a diagnostic under the diagnostic lock while another
\* worker is in its admission check under the gate lock
C19_Witness ==
    \E w, v \in Workers :
        /\ w # v
        /\ pc[w] = "diag" /\ g_err_mtx = w
        /\ pc[v] = "gate" /\ g_mtx = v

(***************************************************************************)
(* Properties of the in-flight counter.                                    *)
(***************************************************************************)
\* C20: the in-flight counter satisfies 0 <= used < limit + (S + overlap) in
\* every state, and it grows only in a step of the owner of the gate lock
\* taken while used < limit.
C20_CounterBounds ==
    /\ [](/\ 0 <= g_memory_usage_bytes
          /\ g_memory_usage_bytes < g_memory_limit + (block_size + extra_chunk))
    /\ [][g_memory_usage_bytes' > g_memory_usage_bytes
             => /\ g_memory_usage_bytes < g_memory_limit
                /\ g_mtx \in Workers
                /\ pc[g_mtx] = "gate"]_vars

\* the counter is above the budget while two blocks are in flight
C20_Witness ==
    /\ g_memory_limit >= bytes_to_read_ideal
    /\ g_memory_usage_bytes > g_memory_limit
    /\ \E w, v \in Workers : w # v /\ pc[w] = "read" /\ pc[v] = "read"

(***************************************************************************)
(* C12  REPL target gate.  While ctx.pid holds (DWORD)(-1), a command      *)
(* other than lp, help, quit and the p command itself is refused: the      *)
(* iteration makes no call on any process, leaves the pid alone and ends   *)
(* at the prompt.  Once a pid is selected no command is refused, and a     *)
(* command on the target is made on the selected pid.                      *)
(***************************************************************************)
TargetCommands ==
    {"c_search_pattern", "c_list_modules", "c_list_threads", "c_travers_heap",
     "c_travers_heap_calc_entropy", "c_travers_heap_blocks"}

IsSelection(line) == line # common_line /\ ch(line, 0) = "p"

C12_TargetGate ==
    [][ repl_pc = "prompt" =>
          /\ ( /\ pid = DWORD_MAX
               /\ cmd' \notin {"c_list_pids", "c_help", "c_quit_program"}
               /\ ~IsSelection(command') )
             => /\ os_calls' = <<>>
                /\ pid' = pid
                /\ repl_pc' = "prompt"
                /\ UNCHANGED scan_vars
          /\ ( pid # DWORD_MAX /\ ~IsSelection(command') )
             => /\ "Select the PID first!" \notin Range(console')
                /\ cmd' \in TargetCommands
                     => os_calls' # <<>> /\ os_calls'[1][2] = pid
    ]_vars

C12_Witness ==
    /\ repl_pc = "prompt"
    /\ pid = DWORD_MAX
    /\ cmd = "c_search_pattern"
    /\ os_calls = <<>>
    /\ "Select the PID first!" \in Range(console)

(***************************************************************************)
(* C13  Target handle lifecycle.  A search that is not refused calls       *)
(* OpenProcess once, on the selected pid.  When the open fails the error   *)
(* is printed, find_pattern is not called, the pid is left alone and the   *)
(* loop is back at the prompt.  When it succeeds the handle stays open     *)
(* during find_pattern and CloseHandle is called once after it, whichever  *)
(* way find_pattern returned.                                              *)
(***************************************************************************)
Count(calls, call) == Cardinality({k \in 1..Len(calls) : calls[k][1] = call})

OpenFailed == "Failed opening the process." \in Range(console)

C13_HandleLifecycle ==
    /\ [](cmd = "c_search_pattern" /\ os_calls # <<>> =>
            /\ Count(os_calls, "OpenProcess") = 1
            /\ os_calls[1] = <<"OpenProcess", pid>>
            /\ IF OpenFailed
               THEN os_calls = <<<<"OpenProcess", pid>>>> /\ repl_pc = "prompt"
               ELSE IF repl_pc = "scanning"
               THEN os_calls = search_calls(pid)
               ELSE /\ os_calls = Append(search_calls(pid), <<"CloseHandle">>)
                    /\ phase = "returned"
                    /\ result \in {"no_matches", "too_many", "listed"})
    /\ [][ repl_pc = "prompt" /\ cmd' = "c_search_pattern" =>
             /\ pid' = pid
             /\ OpenFailed' => UNCHANGED scan_vars
             /\ repl_pc' = "scanning" => phase' = "entry"
       ]_vars
    /\ [][ repl_pc = "scanning" /\ repl_pc' # "scanning" => phase = "returned" ]_vars

C13_Witness ==
    /\ repl_pc = "prompt"
    /\ cmd = "c_search_pattern"
    /\ result = "too_many"
    /\ Count(os_calls, "CloseHandle") = 1

(***************************************************************************)
(* C21  Budget conservation.  The counter is the sum of the sizes of the   *)
(* blocks admitted and not yet released: a worker that leaves its block,   *)
(* by the failure path or by the release at the end of the body, subtracts *)
(* the size of the block in that step, and nothing else lowers the         *)
(* counter.  So the counter is 0 whenever every worker has finished, and   *)
(* the step that starts the parallel loop of a scan leaves it at 0.        *)
(***************************************************************************)
AllWorkersFinished ==
    phase \in {"scan", "joined", "returned"} /\ \A w \in Workers : pc[w] \in {"done", "off"}

C21_BudgetConservation ==
    /\ [](phase = "scan" => CounterIsInFlight)
    /\ [](AllWorkersFinished => g_memory_usage_bytes = 0)
    /\ [][\A w \in Workers :
             (phase = "scan" /\ pc[w] \in Holding /\ pc'[w] \notin Holding)
                 => /\ pc[w] \in {"fail", "release"}
                    /\ g_memory_usage_bytes' = g_memory_usage_bytes - bytes_to_read(w)]_vars
    /\ [][g_memory_usage_bytes' < g_memory_usage_bytes
             => \E w \in Workers : pc[w] \in Holding /\ pc'[w] \notin Holding]_vars
    /\ [][phase = "entry" /\ phase' = "scan" => g_memory_usage_bytes' = 0]_vars

\* a verbose scan has ended with a failed block and a short block behind it
C21_Witness ==
    /\ phase = "joined"
    /\ g_show_failed_readings
    /\ g_memory_usage_bytes = 0
    /\ \E j, k \in 1..Len(blocks) :
          /\ outcome[j].kind = "fail" /\ outcome[k].kind = "short"
          /\ [block |-> j - 1, failed |-> TRUE] \in diag
          /\ [block |-> k - 1, failed |-> FALSE] \in diag

(***************************************************************************)
(* C22  The verbose flag changes only diagnostics.  When the scan with     *)
(* verbose reads on has planned the blocks of the scan with verbose reads  *)
(* off and its reads have returned the same for every block, then at the   *)
(* end of its loop the match list of every block is the same, the counter  *)
(* has seen the same additions and subtractions for every block in the     *)
(* same order, and with a single worker the whole sequence of additions    *)
(* and subtractions is the same.                                           *)
(***************************************************************************)
\* the operations of a ledger on block i, in order
RECURSIVE OnBlock(_, _)
OnBlock(l, i) ==
    IF l = <<>> THEN <<>>
    ELSE IF Head(l).block = i THEN <<Head(l).op>> \o OnBlock(Tail(l), i)
    ELSE OnBlock(Tail(l), i)

SameScan ==
    /\ quiet.state = "second"
    /\ phase = "joined"
    /\ blocks = quiet.blocks
    /\ outcome = quiet.outcome

C22_VerboseOnlyDiagnostics ==
    SameScan
        => /\ match = quiet.match
           /\ \A k \in 1..Len(blocks) :
                 /\ OnBlock(ledger, k - 1) = OnBlock(quiet.ledger, k - 1)
                 /\ OnBlock(ledger, k - 1) = <<"add", "subtract">>
           /\ num_threads = 1 => ledger = quiet.ledger

\* both scans had a failed block and a short block with a match in it, and
\* the second printed a diagnostic for each
C22_Witness ==
    /\ SameScan
    /\ \E j, k \in 1..Len(blocks) :
          /\ outcome[j].kind = "fail"
          /\ outcome[k].kind = "short" /\ match[k] # <<>>
          /\ [block |-> j - 1, failed |-> TRUE] \in diag
          /\ [block |-> k - 1, failed |-> FALSE] \in diag

====
